---- MODULE Spec2Model ----
(***************************************************************************)
(* ExoTransmitPy: the multi-instance job dispatch of exotransmit.core.run, *)
(* the userInput.in parameter codec of exotransmit.io.parameters and the   *)
(* output path handling, as a state machine.                               *)
(*                                                                         *)
(* Strings are sequences of characters; a name whose spelling plays no     *)
(* role ("eos_0", "o1", "ExoTransmitSpectra") is one character of it.      *)
(* Python indices are 0-based, sequences here 1-based: x[k] in the source  *)
(* is x[k+1] here.                                                         *)
(***************************************************************************)
EXTENDS Integers, Sequences, FiniteSets, TLC

\* ------------------------------------------------------------------ bounds
MaxReq == 3
MaxCores == 4
\* the radii tried on the unit checks: m * 10^e, m up to MaxMant, e up to MaxExp
MaxMant == 11
MaxExp == 12
\* the EOS codes tried on the registry: from -MaxCode to MaxCode
MaxCode == 3
\* the loads of the package (the sessions) that are followed
MaxLoads == 3

\* mp.cpu_count() of the machine the package was provisioned on
cpu_count == MaxCores

\* ----------------------------------------------------------------- numbers
\* A number m * 10^e; f says it is a Python float (it prints with ".0").
Num(m, e, f) == [m |-> m, e |-> e, f |-> f]
Int_(k) == Num(k, 0, FALSE)

\* (x <= 10^k)
LePow10(x, k) ==
    \/ x.m <= 0
    \/ /\ x.e <= k
       /\ \/ k - x.e > 9
          \/ x.m <= 10 ^ (k - x.e)
\* x < 10^k and x > 10^k, without leaving 32-bit integers
LtPow10(x, k) ==
    \/ x.m <= 0
    \/ /\ x.e < k
       /\ \/ k - x.e > 9
          \/ x.m < 10 ^ (k - x.e)
\* (x >= 10^k)
GePow10(x, k) ==
    /\ x.m > 0
    /\ \/ x.e >= k
       \/ x.e < k /\ k - x.e <= 9 /\ x.m >= 10 ^ (k - x.e)
GtPow10(x, k) ==
    /\ x.m > 0
    /\ \/ x.e > k
       \/ x.e = k /\ x.m > 1
       \/ x.e < k /\ k - x.e <= 9 /\ x.m > 10 ^ (k - x.e)

\* astropy.constants R_jup.value = 71492000.0 and R_sun.value = 695700000.0
R_jup_m == 71492
R_jup_e == 3
R_sun_m == 6957
R_sun_e == 5

DigitChar == <<"0", "1", "2", "3", "4", "5", "6", "7", "8", "9">>
RECURSIVE Digits(_)
Digits(k) == IF k < 10 THEN <<DigitChar[k + 1]>>
             ELSE Digits(k \div 10) \o <<DigitChar[(k % 10) + 1]>>
Zeros(k) == [j \in 1..k |-> "0"]
\* the integer part of a non-negative number, in decimal
IntDigits(x) == IF x.m = 0 THEN <<"0">>
                ELSE IF x.e >= 0 THEN Digits(x.m) \o Zeros(x.e)
                ELSE Digits(x.m \div (10 ^ (0 - x.e)))
\* the digits after the point of a number with some (its last one not 0)
FracDigits(x) ==
    LET d == Digits(x.m % (10 ^ (0 - x.e)))
    IN  Zeros((0 - x.e) - Len(d)) \o d
\* str(x)
str(x) == IF x.e < 0 THEN IntDigits(x) \o <<".">> \o FracDigits(x)
          ELSE IntDigits(x) \o (IF x.f THEN <<".", "0">> ELSE <<>>)
\* str(int(x))
str_int(x) == IntDigits(x)
\* '{:.1f}'.format(x) and '{:.2f}'.format(x), of a number with at most one decimal
format_1f(x) == IntDigits(x) \o <<".">> \o (IF x.e < 0 THEN FracDigits(x) ELSE <<"0">>)
format_2f(x) == format_1f(x) \o <<"0">>
\* round(x, 1): the numbers of the model have at most one decimal
round1(x) == x

\* x % 1 == 0
is_integral(x) == x.e >= 0 \/ x.m % (10 ^ (0 - x.e)) = 0
\* (an EOS code left as it was given)
int_kept(x) == x
\* int(x), of an integral x
int(x) == IF x.e >= 0 THEN Num(x.m, x.e, FALSE) ELSE Num(x.m \div (10 ^ (0 - x.e)), 0, FALSE)
\* the integer an int is
IntValue(x) == x.m * (10 ^ x.e)

\* ------------------------------------------------------------------- paths
Dat == <<".", "d", "a", "t">>
Last4(s) == IF Len(s) <= 4 THEN s ELSE SubSeq(s, Len(s) - 3, Len(s))
SlashAt(s) == {j \in 1..Len(s) : s[j] = "/"}
LastSlash(s) == IF SlashAt(s) = {} THEN 0
                ELSE CHOOSE j \in SlashAt(s) : \A k \in SlashAt(s) : k <= j
\* os.path.basename, os.path.dirname
os_path_basename(s) == SubSeq(s, LastSlash(s) + 1, Len(s))
os_path_dirname(s) ==
    LET j == LastSlash(s) IN
    IF j = 0 THEN <<>> ELSE IF j = 1 THEN <<"/">> ELSE SubSeq(s, 1, j - 1)
\* os.path.join(a, p): an absolute p discards a
os_path_join(a, p) ==
    IF Len(p) > 0 /\ p[1] = "/" THEN p
    ELSE IF Len(a) = 0 \/ a[Len(a)] = "/" THEN a \o p
    ELSE a \o <<"/">> \o p
\* every directory above a path
Ancestors(s) ==
    {IF j = 1 THEN <<"/">> ELSE SubSeq(s, 1, j - 1) : j \in SlashAt(s) \ {Len(s)}}

EXOTRANSMIT_SPECTRA_PATH == <<"/", "ExoTransmitSpectra">>
\* the instance pool: one copy of Exo-Transmit per core, made at setup
NInstances == cpu_count
Instances == 0..(NInstances - 1)
EXOTRANSMIT_CLUSTER_PATH == <<"/", "ExoTransmitCluster">>
\* the folder of the copy that is instance n
EXOTRANSMIT_INSTANCE_PATHS(n) ==
    EXOTRANSMIT_CLUSTER_PATH \o <<"/", "ExoTransmit">> \o Digits(n + 1)
\* the directory the caller of run works in
CallerDir == <<"/", "home">>

\* ------------------------------------------------------------ EOS registry
\* the lines of include/eos_list.txt, without their line ends
eos_list == <<"eos_0", "eos_1">>
\* l[n] raises IndexError; l[n] otherwise, a negative n counting from the end
list_getitem_raises(l, n) == n >= Len(l) \/ n < 0 - Len(l)
list_getitem(l, n) == IF n >= 0 THEN l[n + 1] ELSE l[Len(l) + n + 1]
\* io.get_eos(n): raises for a code that is not integral or not an index of
\* the list, and the name it returns otherwise
get_eos_raises(n) ==
    \/ ~is_integral(n)
    \/ list_getitem_raises(eos_list, IntValue(int(n)))
get_eos(n) == <<list_getitem(eos_list, IntValue(int(n)))>>
\* (a search that counts from one)
list_index_from_one(l, x) == CHOOSE j \in 1..Len(l) : l[j] = x /\ \A k \in 1..(j - 1) : l[k] # x
\* l.index(x) raises ValueError; the first position of x otherwise
list_index_raises(l, x) == \A j \in 1..Len(l) : l[j] # x
list_index(l, x) == (CHOOSE j \in 1..Len(l) : l[j] = x /\ \A k \in 1..(j - 1) : l[k] # x) - 1
\* io.enumerate_eos(eos_name), of a name as get_eos returns it
enumerate_eos_raises(eos_name) == Len(eos_name) # 1 \/ list_index_raises(eos_list, eos_name[1])
enumerate_eos(eos_name) == Int_(list_index(eos_list, eos_name[1]))

\* ------------------------------------------------------ parameters.py
PlanetUnitsOk(Rp) == LtPow10(Rp, 1) \/ (GtPow10(Rp, 6) /\ LtPow10(Rp, 9))
_check_planet_units(Rp) ==
    IF LtPow10(Rp, 1) THEN Num(Rp.m * R_jup_m, Rp.e + R_jup_e, TRUE) ELSE Rp
StarUnitsOk(Rs) == LtPow10(Rs, 2) \/ (GtPow10(Rs, 11) /\ LtPow10(Rs, 12))
_check_star_units(Rs) ==
    IF LtPow10(Rs, 2) THEN Num(Rs.m * R_sun_m, Rs.e + R_sun_e, TRUE) ELSE Rs

\* what set_parameters raises: ValueError for a radius in a rejected band
\* (lines 45-46), what get_eos raises for the EOS code (line 63), or nothing
set_parameters_error(p) ==
    IF ~PlanetUnitsOk(p[4]) \/ ~StarUnitsOk(p[5]) THEN "ValueError"
    ELSE IF ~is_integral(p[1]) THEN "ValueError"
    ELSE IF get_eos_raises(p[1]) THEN "IndexError"
    ELSE "none"
set_parameters_raises(p) == set_parameters_error(p) # "none"

\* (a read that drops the end of every line)
readlines_split(f) == [k \in 1..Len(f) |-> SubSeq(f[k], 1, Len(f[k]) - 1)]
\* file.readlines(): the lines of the file, each with its line end
readlines(f) == f

\* the line list set_parameters writes back
set_parameters(file, p, output_name) ==
    LET Rp == _check_planet_units(p[4])
        Rs == _check_star_units(p[5])
        name == IF Last4(output_name) = Dat THEN output_name
                ELSE output_name \o Dat
        userIn == readlines(file)
    IN  [userIn EXCEPT
            ![10] = <<"/", "Spectra", "/">> \o name \o <<"\n">>,
            ![6]  = <<"/", "T_P", "/", "t_p_">> \o str_int(p[2]) \o <<"K">> \o Dat \o <<"\n">>,
            ![8]  = <<"/", "EOS", "/">> \o get_eos(p[1]) \o Dat \o <<"\n">>,
            ![12] = str(p[3]) \o <<"\n">>,
            ![14] = str(round1(Rp)) \o <<"\n">>,
            ![16] = str(round1(Rs)) \o <<"\n">>,
            ![18] = str(p[6]) \o <<"\n">>,
            ![20] = str(p[7]) \o <<"\n">>]

\* (the lines written to the file one by one as they are set: those set
\* before get_eos are in the file when get_eos raises)
written_on_error_so_far(file, p, output_name) ==
    IF ~PlanetUnitsOk(p[4]) \/ ~StarUnitsOk(p[5]) THEN file
    ELSE [file EXCEPT
            ![10] = <<"/", "Spectra", "/">> \o output_name \o <<"\n">>,
            ![6]  = <<"/", "T_P", "/", "t_p_">> \o str_int(p[2]) \o <<"K">> \o Dat \o <<"\n">>]
\* userInput.in after a call that raised: the lines are set in the list read
\* from the file, and the file is opened for writing at line 80 only
written_on_error(file, p, output_name) == file

\* (nothing stripped)
rstrip_none(s) == s
\* s.rstrip('\r\n'), of a line that ends with at most one line end
rstrip(s) == IF Len(s) > 0 /\ s[Len(s)] = "\n" THEN SubSeq(s, 1, Len(s) - 1) ELSE s
IsDigit(c) == c \in {"0", "1", "2", "3", "4", "5", "6", "7", "8", "9"}
\* the end of the run of digits of s that starts at a
RECURSIVE DigitsEnd(_, _)
DigitsEnd(s, a) == IF a < Len(s) /\ IsDigit(s[a + 1]) THEN DigitsEnd(s, a + 1) ELSE a
\* the place of the first digit of s at or after a
RECURSIVE DigitsStart(_, _)
DigitsStart(s, a) == IF IsDigit(s[a]) THEN a ELSE DigitsStart(s, a + 1)
\* re.findall(r'\d+', s)[0]: the first maximal run of digits
FirstDigits(s) == SubSeq(s, DigitsStart(s, 1), DigitsEnd(s, DigitsStart(s, 1)))
\* get_parameters(n): [EOS, TP, output_name, gravity, R_p, R_s, P, r]
get_parameters(userIn) ==
    << rstrip(userIn[8]), FirstDigits(rstrip(userIn[6])), rstrip(userIn[10]),
       rstrip(userIn[12]), rstrip(userIn[14]), rstrip(userIn[16]),
       rstrip(userIn[18]), rstrip(userIn[20]) >>

\* ------------------------------------------------------ filehandler.py
make_file_name(p) ==
    get_eos(p[1]) \o <<"-">> \o format_1f(p[2]) \o <<"-">> \o format_2f(p[3])
    \o <<"-">> \o format_2f(p[4]) \o <<"-">> \o format_2f(p[5]) \o <<"-">>
    \o format_2f(p[6]) \o <<"-">> \o format_2f(p[7]) \o Dat

\* ------------------------------------------------------------------ inputs
PlanetA == <<Int_(0), Int_(1000), Int_(25), Int_(1), Int_(1), Int_(10), Int_(1)>>
PlanetB == <<Int_(0), Int_(800), Int_(25), Int_(1), Int_(1), Int_(10), Int_(1)>>
\* a planet radius of 1e4: in the rejected band
PlanetBadRp == <<Int_(0), Int_(1000), Int_(25), Num(1, 4, FALSE), Int_(1), Int_(10), Int_(1)>>
\* an EOS code of 1.0: integral, not an int; and one of 1.5
PlanetFloatEos == <<Num(1, 0, TRUE), Int_(800), Int_(25), Int_(1), Int_(1), Int_(10), Int_(1)>>
PlanetFracEos == <<Num(15, -1, TRUE), Int_(1000), Int_(25), Int_(1), Int_(1), Int_(10), Int_(1)>>
Planets == {PlanetA, PlanetB, PlanetBadRp, PlanetFloatEos, PlanetFracEos}
\* the planets of a call: one planet (ndim 1); or cnt of them (ndim 2), all
\* PlanetA but for at most one PlanetBadRp or one PlanetFracEos, or PlanetA
\* and PlanetFloatEos in turn
Batches(nd, cnt) ==
    IF nd = 1 THEN [1..1 -> Planets]
    ELSE {[j \in 1..cnt |-> IF j = b THEN PlanetBadRp ELSE PlanetA] : b \in 0..cnt}
         \cup {[j \in 1..cnt |-> IF j = b THEN PlanetFracEos ELSE PlanetA] : b \in 1..cnt}
         \cup {[j \in 1..cnt |-> IF j % 2 = 1 THEN PlanetA ELSE PlanetFloatEos]}

OutNames == <<"o1", "o2", "o3", "o4", "o5", "o6">>
Styles == {"plain", "nodat", "lead"}
StyledPath(j, style) ==
    IF style = "plain" THEN <<OutNames[j]>> \o Dat
    ELSE IF style = "nodat" THEN <<OutNames[j]>>
    ELSE <<"/", OutNames[j]>> \o Dat
\* the output_path arguments tried for a call with cnt planets
OutputArgs(cnt) ==
    {[none |-> TRUE, paths |-> <<>>]}
    \cup {[none |-> FALSE, paths |-> [j \in 1..cnt |-> StyledPath(j, st)]] : st \in Styles}
    \cup {[none |-> FALSE, paths |-> [j \in 1..m |-> StyledPath(j, "plain")]] :
            m \in (0..MaxReq) \ {cnt}}

\* an artifact of an earlier session
OldArtifact == << <<"old header">>, <<"old data">> >>
OldLocations ==
    { EXOTRANSMIT_SPECTRA_PATH \o <<"/", OutNames[1]>> \o Dat,
      EXOTRANSMIT_SPECTRA_PATH \o <<"/">> \o get_eos(PlanetA[1]) \o <<"/">>
          \o str_int(PlanetA[2]) \o <<"/">> \o make_file_name(PlanetA) }

\* userInput.in as the setup left it: labels and defaults, one per line
InputLines == 20
PristineInput == [k \in 1..InputLines |-> <<"line">> \o Digits(k) \o <<"\n">>]

\* ------------------------------------------------------------------- state
VARIABLES
    userInput,          \* instance n -> the lines of its userInput.in
    instSpectra,        \* instance n -> the files of its Spectra folder
    files,              \* path -> lines, the files outside the instances
    dirs,               \* the directories outside the instances
    runPc,              \* where the call of run stands
    runErr,             \* the exception run raised, or "none"
    planet_parameters,  \* the planets of the call
    ndim,               \* planet_parameters.ndim
    output_path,        \* the output paths, given or generated
    full_output_path,
    clobber,
    ncores,
    nextN,              \* the n of the loop that starts the processes
    joinIdx,            \* the process the join loop is at (1-based)
    jobs,               \* the processes started, and the main process's own run
    retval,             \* what run returned
    launches,           \* history: <<request, instance>> the binary was launched for
    outcome,            \* history: request -> what became of it
    pool,               \* len(EXOTRANSMIT_INSTANCE_PATHS): the copies found in the cluster folder
    call,               \* a call of a function of exotransmit.io on its own
    result,             \* what that call returned or raised
    cwd,                \* os.getcwd() of the process that calls run
    config,             \* the lines 7, 9, 11 and 13 of the configuration file
    reset,              \* where a call of _reset_exotransmit stands
    load                \* where a load of the package (_configure_exotransmit_cluster) stands

vars == << userInput, instSpectra, files, dirs, runPc, runErr, planet_parameters,
           ndim, output_path, full_output_path, clobber, ncores, nextN, joinIdx,
           jobs, retval, launches, outcome, pool, call, result, cwd, config, reset, load >>

runVars == << runPc, runErr, planet_parameters, ndim, output_path, full_output_path,
              clobber, ncores, nextN, joinIdx, jobs, retval, launches, outcome >>
\* what a call of run leaves alone
envVars == << pool, call, result, config, reset, load >>
\* what a call of a function of exotransmit.io on its own leaves alone
ioFrame == << userInput, instSpectra, files, dirs, runPc, runErr, planet_parameters,
             ndim, output_path, full_output_path, clobber, ncores, nextN, joinIdx,
             jobs, retval, launches, outcome, pool, cwd, config, reset, load >>

fsVars == << userInput, instSpectra, files, dirs >>
argVars == << planet_parameters, ndim, output_path, full_output_path, clobber, ncores >>

Exists(p) == p \in DOMAIN files \/ p \in dirs
WriteFile(f, p, c) == [q \in DOMAIN f \cup {p} |-> IF q = p THEN c ELSE f[q]]

\* no call of a function of exotransmit.io on its own
NoCall == [fn |-> "none", x |-> Int_(0), p |-> PlanetA, name |-> <<>>,
           path |-> <<>>, legacy |-> FALSE]
NoResult == [raised |-> FALSE, err |-> "none", value |-> Int_(0), name |-> <<>>,
             file |-> <<>>, params |-> <<>>, parsed |-> <<>>]
Raised(e) == [NoResult EXCEPT !.raised = TRUE, !.err = e]

\* the configuration file after the setup: the original copy, the cluster
\* folder, the spectra folder and SETUP_COMPLETED
ConfigAfterSetup ==
    [original |-> <<"/", "Exo-Transmit">>, cluster |-> EXOTRANSMIT_CLUSTER_PATH,
     spectra |-> EXOTRANSMIT_SPECTRA_PATH, completed |-> <<"True">>]
\* no call of _reset_exotransmit
NoReset == [pc |-> "idle", confirm |-> <<>>, answers |-> <<>>, ret |-> "none"]
\* the package not loaded in this session: the locals of
\* _configure_exotransmit_cluster, the number of the load, whether it made
\* the setup, and (history) the spectra root the load that made the setup
\* returned
NoLoad == [pc |-> "none", n |-> 0, original |-> <<>>, cluster |-> <<>>,
           spectra |-> <<>>, setup |-> FALSE, first |-> <<"none">>]

\* no call of run yet
InitRun ==
    /\ runPc = "idle"
    /\ runErr = "none"
    /\ planet_parameters = <<>>
    /\ ndim = 0
    /\ output_path = <<>>
    /\ full_output_path = <<>>
    /\ clobber = FALSE
    /\ ncores = 0
    /\ nextN = 0
    /\ joinIdx = 0
    /\ jobs = <<>>
    /\ retval = [none |-> TRUE, paths |-> <<>>]
    /\ launches = {}
    /\ outcome = <<>>

\* the package set up on this machine: one copy per core in the cluster folder
Init ==
    /\ pool = NInstances
    /\ userInput = [n \in Instances |-> PristineInput]
    /\ instSpectra = [n \in Instances |-> {}]
    /\ \E S \in {{}, OldLocations} :
         /\ files = [p \in S |-> OldArtifact]
         /\ dirs = {<<"/">>, EXOTRANSMIT_SPECTRA_PATH} \cup UNION {Ancestors(p) : p \in S}
    /\ InitRun
    /\ call = NoCall
    /\ result = NoResult
    /\ cwd = CallerDir
    /\ config = ConfigAfterSetup
    /\ reset = NoReset
    /\ load = NoLoad

\* as Init, with the artifacts of an earlier session in place
InitOld ==
    /\ Init
    /\ DOMAIN files = OldLocations

\* the package loaded with a cluster folder that was there before the setup
\* (_config.py:172 makes no copies then) or was filled on another machine:
\* the copies found (_config.py:255) are fewer than the cores, or as many
InitPool ==
    /\ pool \in 1..cpu_count
    /\ userInput = [n \in 0..(pool - 1) |-> PristineInput]
    /\ instSpectra = [n \in 0..(pool - 1) |-> {}]
    /\ files = [p \in {} |-> OldArtifact]
    /\ dirs = {<<"/">>, EXOTRANSMIT_SPECTRA_PATH}
    /\ InitRun
    /\ call = NoCall
    /\ result = NoResult
    /\ cwd = CallerDir
    /\ config = ConfigAfterSetup
    /\ reset = NoReset
    /\ load = NoLoad

\* ------------------------------------------------------------- core.py: run
\* np.array_split(seq, k): k contiguous pieces, the first Len(seq) % k one longer
\* (a split that makes the last pieces the longer ones)
array_split_size_last(len, k, j) == (len \div k) + (IF j > k - (len % k) THEN 1 ELSE 0)
array_split_size(len, k, j) == (len \div k) + (IF j <= len % k THEN 1 ELSE 0)
RECURSIVE array_split_start(_, _, _)
array_split_start(len, k, j) ==
    IF j = 1 THEN 1
    ELSE array_split_start(len, k, j - 1) + array_split_size(len, k, j - 1)
array_split(seq, k) ==
    [j \in 1..k |->
        LET a == array_split_start(Len(seq), k, j)
            sz == array_split_size(Len(seq), k, j)
        IN  [x \in 1..sz |-> seq[a + x - 1]]]

\* (a path whose folder is named by the temperature as the file name has it)
generated_path_float_T(p) ==
    get_eos(p[1]) \o <<"/">> \o format_1f(p[2]) \o <<"/">> \o make_file_name(p)
\* '{}/{}/{}'.format(io.get_eos(p[0]), int(p[1]), io.make_file_name(p))
generated_path(p) ==
    get_eos(p[1]) \o <<"/">> \o str_int(p[2]) \o <<"/">> \o make_file_name(p)

\* len(planet_parameters): the 7 entries of one planet, or the number of planets
len_planet_parameters(pp, nd) == IF nd = 1 THEN Len(pp[1]) ELSE Len(pp)

\* lines 152-155: the check of the numbers of planets and of outputs
counts_mismatch(pp, nd, op) ==
    /\ len_planet_parameters(pp, nd) # Len(op)
    /\ nd # Len(op)

\* one process, or the main process's own _exotransmit_direct_run
Job(main, n, plist, olist) ==
    [main |-> main, n |-> n, plist |-> plist, olist |-> olist, i |-> 1,
     pc |-> "loop", out |-> <<>>, err |-> "none", current_dir |-> <<>>,
     eexist |-> FALSE]

\* (every process given instance 0; every process given the next instance)
process_instance_zero(n) == 0
process_instance_shifted(n) == (n + 1) % NInstances
\* the instance index a started process is given: args=(..., n)
process_instance(n) == n

\* lines 116-129: the EOS codes are checked and made ints
eos_raises(pp) == \E j \in 1..Len(pp) : ~is_integral(pp[j][1])
eos_checked(pp) ==
    [j \in 1..Len(pp) |-> [pp[j] EXCEPT ![1] = IF @.f THEN int(@) ELSE @]]

\* lines 108-155: the checks and the output paths, before any planet is run
run_checks(nd, cl, nc, pp, oa) ==
         LET cp == eos_checked(pp)
             op == IF oa.none THEN [j \in 1..Len(cp) |-> generated_path(cp[j])]
                   ELSE oa.paths
         IN
         /\ ndim' = nd
         /\ clobber' = cl
         /\ ncores' = nc
         /\ outcome' = [j \in 1..Len(pp) |-> "pending"]
         /\ IF nc > cpu_count
            THEN /\ runPc' = "raised"
                 /\ runErr' = "Exception: ncores"
                 /\ planet_parameters' = pp
                 /\ UNCHANGED << output_path, full_output_path >>
            ELSE IF eos_raises(pp)
            THEN /\ runPc' = "raised"
                 /\ runErr' = "TypeError"
                 /\ planet_parameters' = pp
                 /\ UNCHANGED << output_path, full_output_path >>
            ELSE /\ planet_parameters' = cp
                 /\ output_path' = op
                 /\ full_output_path' =
                        [j \in 1..Len(op) |-> os_path_join(EXOTRANSMIT_SPECTRA_PATH, op[j])]
                 /\ IF counts_mismatch(cp, nd, op)
                    THEN runPc' = "raised" /\ runErr' = "Exception: counts"
                    ELSE /\ runPc' = IF nd = 1 THEN "single" ELSE "starting"
                         /\ runErr' = "none"

\* run(planet_parameters, output_path, ncores, clobber) is called
run_begin ==
    /\ runPc = "idle"
    /\ \E nd \in {1, 2}, cnt \in 1..MaxReq, cl \in BOOLEAN, nc \in 1..(cpu_count + 1) :
       \E pp \in Batches(nd, cnt) :
       \E oa \in OutputArgs(Len(pp)) :
         run_checks(nd, cl, nc, pp, oa)
    /\ UNCHANGED << envVars, fsVars, cwd, nextN, joinIdx, jobs, retval, launches >>

\* the output paths of a batch that go to one folder, which is not there
\* before the call
FolderPaths(cnt) == [j \in 1..cnt |-> <<"d", "/", OutNames[j]>> \o Dat]
\* run is called with a batch of two planets or more and such output paths
run_begin_folder ==
    /\ runPc = "idle"
    /\ \E cnt \in 2..MaxReq, cl \in BOOLEAN, nc \in 1..cpu_count :
         run_checks(2, cl, nc, [j \in 1..cnt |-> IF j % 2 = 1 THEN PlanetA ELSE PlanetB],
                    [none |-> FALSE, paths |-> FolderPaths(cnt)])
    /\ UNCHANGED << envVars, fsVars, cwd, nextN, joinIdx, jobs, retval, launches >>

\* --------------------------------------------- core.py: _exotransmit_direct_run
\* lines 237-241: '.dat' appended and '/' prepended where missing
format_output_path(op) ==
    LET a == IF Last4(op) = Dat THEN op ELSE op \o Dat
    IN  IF a[1] = "/" THEN a ELSE <<"/">> \o a

desired_output_path(out) == EXOTRANSMIT_SPECTRA_PATH \o out

\* what the binary writes for the parameters it finds in userInput.in
BinaryOutput(userIn) ==
    << <<"spectrum of">> \o rstrip(userIn[6]) \o rstrip(userIn[8])
       \o rstrip(userIn[12]) \o rstrip(userIn[14]) \o rstrip(userIn[16])
       \o rstrip(userIn[18]) \o rstrip(userIn[20]) >>
\* the file name the binary writes to: the name on the output line
BinaryOutputName(userIn) == os_path_basename(rstrip(userIn[10]))

\* lines 280-284: the header put before the spectrum
details_to_prepend(pl) ==
    LET b == os_path_basename(pl[1])
        eos == SubSeq(b, 1, Len(b) - 4)
    IN  <<"EoS", ":">> \o eos \o <<", ", "T", ":">> \o pl[2]
        \o <<", ", "g", ":">> \o pl[4] \o <<", ", "r_p", ":">> \o pl[5]
        \o <<", ", "r_s", ":">> \o pl[6] \o <<", ", "P", ":">> \o pl[7]
        \o <<", ", "r", ":">> \o pl[8]

\* (a loop that takes the chunk from its end)
loop_item_reversed(j) == j.plist[Len(j.plist) + 1 - j.i]
\* the planet and the output path of the i-th turn of the loop of a process
loop_item(j) == j.plist[j.i]
loop_output(j) == j.olist[j.i]

\* (a loop that takes the same planet again)
next_turn_again(j) ==
    IF j.main THEN [j EXCEPT !.pc = "done", !.out = <<>>]
    ELSE [j EXCEPT !.pc = "loop", !.out = <<>>]
\* the next turn of the for loop, or its end
next_turn(j) ==
    IF j.main \/ j.i + 1 > Len(j.plist)
    THEN [j EXCEPT !.pc = "done", !.out = <<>>]
    ELSE [j EXCEPT !.pc = "loop", !.i = j.i + 1, !.out = <<>>]
\* (an exception caught inside the loop, which goes on)
on_exception_caught(j, e) == [next_turn(j) EXCEPT !.err = e]
\* an exception nobody catches ends the process (or, in the main process, run)
on_exception(j, e) == [j EXCEPT !.pc = "dead", !.err = e]


\* the job k becomes j (the main process's own job is made on the spot)
PutJob(k, j) == IF k > Len(jobs) THEN Append(jobs, j) ELSE [jobs EXCEPT ![k] = j]
\* the main process runs its planet itself: what its job does, run does
RunFollows(j) ==
    IF j.main /\ j.pc = "dead" THEN runPc' = "raised" /\ runErr' = j.err
    ELSE IF j.main /\ j.pc = "done" THEN runPc' = "return" /\ runErr' = runErr
    ELSE IF j.main THEN runPc' = "single_run" /\ runErr' = runErr
    ELSE UNCHANGED << runPc, runErr >>

\* os.chdir(path) in the process of the job j: a started process has a working
\* directory of its own, the main process has that of the caller of run
chdir(j, path) == IF j.main THEN path ELSE cwd

\* lines 237-256 for planet r and output path op on the job j (the k-th): the
\* path is formatted, set_parameters rewrites userInput.in, the binary is launched
direct_run_start(k, j, r, op) ==
    LET out == format_output_path(op)
        p == planet_parameters[r]
    IN
    IF set_parameters_raises(p)
    THEN /\ jobs' = PutJob(k, on_exception(j, set_parameters_error(p)))
         /\ RunFollows(on_exception(j, set_parameters_error(p)))
         /\ outcome' = [outcome EXCEPT ![r] = "failed"]
         /\ UNCHANGED << userInput, launches, cwd >>
    ELSE IF j.n >= pool
    THEN /\ jobs' = PutJob(k, on_exception(j, "IndexError"))
         /\ RunFollows(on_exception(j, "IndexError"))
         /\ outcome' = [outcome EXCEPT ![r] = "failed"]
         /\ UNCHANGED << userInput, launches, cwd >>
    ELSE /\ userInput' = [userInput EXCEPT
                ![j.n] = set_parameters(userInput[j.n], p, os_path_basename(out))]
         /\ launches' = launches \cup {<<r, j.n>>}
         /\ outcome' = [outcome EXCEPT ![r] = "started"]
         /\ jobs' = PutJob(k, [j EXCEPT !.pc = "running", !.out = out, !.current_dir = cwd])
         /\ RunFollows([j EXCEPT !.pc = "running"])
         /\ cwd' = chdir(j, EXOTRANSMIT_INSTANCE_PATHS(j.n))

\* lines 159-166: one planet, run by the main process on instance 0
run_single ==
    /\ runPc = "single"
    /\ IF Exists(os_path_join(EXOTRANSMIT_SPECTRA_PATH, output_path[1])) /\ ~clobber
       THEN /\ runPc' = "return"
            /\ outcome' = [outcome EXCEPT ![1] = "skipped"]
            /\ UNCHANGED << runErr, jobs, userInput, launches, cwd >>
       ELSE IF Len(output_path) # 1
       THEN /\ runPc' = "raised"
            /\ runErr' = "ValueError"
            /\ UNCHANGED << outcome, jobs, userInput, launches, cwd >>
       ELSE direct_run_start(1, Job(TRUE, 0, <<1>>, output_path), 1, output_path[1])
    /\ UNCHANGED << envVars, instSpectra, files, dirs, argVars, nextN, joinIdx, retval >>

\* lines 171-192: one turn of the loop that makes and starts the processes
run_start_process ==
    /\ runPc = "starting"
    /\ LET cnt == Len(planet_parameters)
           last == IF cnt < ncores THEN cnt ELSE ncores
           reqs == [j \in 1..cnt |-> j]
       IN
       IF cnt < ncores /\ nextN + 1 > Len(output_path)
       THEN /\ runPc' = "raised"
            /\ runErr' = "IndexError"
            /\ UNCHANGED << jobs, nextN, joinIdx >>
       ELSE /\ jobs' = Append(jobs,
                IF cnt < ncores
                THEN Job(FALSE, process_instance(nextN), <<nextN + 1>>,
                         <<output_path[nextN + 1]>>)
                ELSE Job(FALSE, process_instance(nextN),
                         array_split(reqs, ncores)[nextN + 1],
                         array_split(output_path, ncores)[nextN + 1]))
            /\ nextN' = nextN + 1
            /\ runPc' = IF nextN + 1 = last THEN "joining" ELSE "starting"
            /\ joinIdx' = IF nextN + 1 = last THEN 1 ELSE joinIdx
            /\ UNCHANGED runErr
    /\ UNCHANGED << envVars, fsVars, cwd, argVars, retval, launches, outcome >>

\* (a join that does not wait)
join_returns_at_once(j) == TRUE
\* process.join() returns once the process has ended
join_returns(j) == j.pc \in {"done", "dead"}

\* lines 194-195: the join loop. Each join only waits, and a process that
\* has ended stays ended, so the loop is through when all of them have ended.
run_join ==
    /\ runPc = "joining"
    /\ \A k \in 1..Len(jobs) : join_returns(jobs[k])
    /\ joinIdx' = Len(jobs) + 1
    /\ runPc' = "return"
    /\ UNCHANGED << envVars, fsVars, cwd, argVars, runErr, nextN, jobs, retval, launches, outcome >>

\* lines 197-198
run_return ==
    /\ runPc = "return"
    /\ \E return_paths \in BOOLEAN :
         retval' = IF return_paths THEN [none |-> FALSE, paths |-> full_output_path]
                   ELSE [none |-> TRUE, paths |-> <<>>]
    /\ runPc' = "returned"
    /\ UNCHANGED << envVars, fsVars, cwd, argVars, runErr, nextN, joinIdx, jobs, launches, outcome >>

\* ---------------------------------------- core.py: exotransmit_subprocess
\* lines 93-103: one turn of the loop of process k
loop_turn(k) ==
    LET j == jobs[k] IN
    /\ j.pc = "loop"
    /\ ~j.main
    /\ IF j.i > Len(j.olist)
       THEN /\ jobs' = [jobs EXCEPT ![k] = on_exception(j, "IndexError")]
            /\ outcome' = [outcome EXCEPT ![loop_item(j)] = "failed"]
            /\ UNCHANGED << userInput, launches, runPc, runErr, cwd >>
       ELSE IF Exists(os_path_join(EXOTRANSMIT_SPECTRA_PATH, loop_output(j))) /\ ~clobber
       THEN /\ jobs' = [jobs EXCEPT ![k] = next_turn(j)]
            /\ outcome' = [outcome EXCEPT ![loop_item(j)] = "skipped"]
            /\ UNCHANGED << userInput, launches, runPc, runErr, cwd >>
       ELSE direct_run_start(k, j, loop_item(j), loop_output(j))
    /\ UNCHANGED << envVars, instSpectra, files, dirs, argVars, nextN, joinIdx, retval >>

\* lines 256-276: the external binary ends and check_output returns or raises
\* (exit status 0 with the spectrum written, exit status 0 without it, or a
\* nonzero exit status); after exit status 0 the folders are made and the
\* spectrum is moved. The steps of the process up to the move touch nothing
\* another process reads, so they are one step with the move.
binary_exit_move(k) ==
    LET j == jobs[k]
        r == loop_item(j)
        desired == desired_output_path(j.out)
        written == [name |-> BinaryOutputName(userInput[j.n]),
                    content |-> BinaryOutput(userInput[j.n])]
    IN
    /\ j.pc = "running"
    /\ \E res \in {"ok", "noartifact", "nonzero"} :
         LET inSpectra == IF res = "ok"
                          THEN {f \in instSpectra[j.n] : f.name # written.name}
                               \cup {written}
                          ELSE instSpectra[j.n]
             made == {f \in inSpectra : f.name = os_path_basename(j.out)}
         IN
         IF res = "nonzero"
         THEN /\ jobs' = [jobs EXCEPT ![k] = on_exception(j, "CalledProcessError")]
              /\ RunFollows(on_exception(j, "CalledProcessError"))
              /\ outcome' = [outcome EXCEPT ![r] = "failed"]
              /\ UNCHANGED << instSpectra, files, dirs, cwd >>
         ELSE /\ cwd' = chdir(j, j.current_dir)
              /\ dirs' = dirs \cup {os_path_dirname(desired)}
                              \cup Ancestors(os_path_dirname(desired))
              /\ IF made = {}
                 THEN /\ jobs' = [jobs EXCEPT ![k] = on_exception(j, "FileNotFoundError")]
                      /\ RunFollows(on_exception(j, "FileNotFoundError"))
                      /\ outcome' = [outcome EXCEPT ![r] = "failed"]
                      /\ instSpectra' = [instSpectra EXCEPT ![j.n] = inSpectra]
                      /\ UNCHANGED files
                 ELSE /\ files' = WriteFile(files, desired, (CHOOSE f \in made : TRUE).content)
                      /\ instSpectra' = [instSpectra EXCEPT ![j.n] = inSpectra \ made]
                      /\ jobs' = [jobs EXCEPT ![k] = [j EXCEPT !.pc = "header"]]
                      /\ UNCHANGED << runPc, runErr, outcome >>
    /\ UNCHANGED << envVars, userInput, argVars, nextN, joinIdx, retval, launches >>

\* lines 256-276, step by step, for the processes that finalize side by side.
\* lines 256-257: the external binary ends, check_output returns or raises
binary_exit(k) ==
    LET j == jobs[k]
        r == loop_item(j)
        written == [name |-> BinaryOutputName(userInput[j.n]),
                    content |-> BinaryOutput(userInput[j.n])]
    IN
    /\ j.pc = "running"
    /\ \E res \in {"ok", "noartifact", "nonzero"} :
         IF res = "nonzero"
         THEN /\ jobs' = [jobs EXCEPT ![k] = on_exception(j, "CalledProcessError")]
              /\ RunFollows(on_exception(j, "CalledProcessError"))
              /\ outcome' = [outcome EXCEPT ![r] = "failed"]
              /\ UNCHANGED << instSpectra, cwd >>
         ELSE /\ cwd' = chdir(j, j.current_dir)
              /\ instSpectra' = [instSpectra EXCEPT ![j.n] =
                    IF res = "ok" THEN {f \in @ : f.name # written.name} \cup {written}
                    ELSE @]
              /\ jobs' = [jobs EXCEPT ![k] = [j EXCEPT !.pc = "exited"]]
              /\ UNCHANGED << runPc, runErr, outcome >>
    /\ UNCHANGED << envVars, userInput, files, dirs, argVars, nextN, joinIdx, retval, launches >>

\* line 268: os.path.exists of the folder of the desired output path
finalize_exists(k) ==
    LET j == jobs[k]
        dirname == os_path_dirname(desired_output_path(j.out))
    IN
    /\ j.pc = "exited"
    /\ jobs' = [jobs EXCEPT ![k] = [j EXCEPT !.pc = IF Exists(dirname) THEN "move" ELSE "makedirs"]]
    /\ UNCHANGED << envVars, fsVars, cwd, argVars, runPc, runErr, nextN, joinIdx, retval,
                    launches, outcome >>

\* (an OSError of makedirs raised again whatever its errno)
makedirs_error_raised(j, errno) == on_exception(j, "OSError")
\* lines 271-273: an OSError of makedirs is raised again unless it is EEXIST
makedirs_error(j, errno) ==
    IF errno # "EEXIST" THEN on_exception(j, "OSError")
    ELSE [j EXCEPT !.pc = "move", !.eexist = TRUE]

\* lines 269-273: os.makedirs makes the folder and the folders above it that
\* are missing, and raises OSError EEXIST when the folder is there by now
finalize_makedirs(k) ==
    LET j == jobs[k]
        r == loop_item(j)
        dirname == os_path_dirname(desired_output_path(j.out))
        after == IF Exists(dirname) THEN makedirs_error(j, "EEXIST")
                 ELSE [j EXCEPT !.pc = "move"]
    IN
    /\ j.pc = "makedirs"
    /\ dirs' = IF Exists(dirname) THEN dirs
               ELSE dirs \cup {dirname} \cup Ancestors(dirname)
    /\ jobs' = [jobs EXCEPT ![k] = after]
    /\ RunFollows(after)
    /\ outcome' = IF after.pc = "dead" THEN [outcome EXCEPT ![r] = "failed"] ELSE outcome
    /\ UNCHANGED << envVars, userInput, instSpectra, files, cwd, argVars, nextN, joinIdx,
                    retval, launches >>

\* line 276: shutil.move of the spectrum from the Spectra folder of the instance
finalize_move(k) ==
    LET j == jobs[k]
        r == loop_item(j)
        desired == desired_output_path(j.out)
        made == {f \in instSpectra[j.n] : f.name = os_path_basename(j.out)}
    IN
    /\ j.pc = "move"
    /\ IF made = {}
       THEN /\ jobs' = [jobs EXCEPT ![k] = on_exception(j, "FileNotFoundError")]
            /\ RunFollows(on_exception(j, "FileNotFoundError"))
            /\ outcome' = [outcome EXCEPT ![r] = "failed"]
            /\ UNCHANGED << files, instSpectra >>
       ELSE /\ files' = WriteFile(files, desired, (CHOOSE f \in made : TRUE).content)
            /\ instSpectra' = [instSpectra EXCEPT ![j.n] = @ \ made]
            /\ jobs' = [jobs EXCEPT ![k] = [j EXCEPT !.pc = "header"]]
            /\ UNCHANGED << runPc, runErr, outcome >>
    /\ UNCHANGED << envVars, userInput, dirs, cwd, argVars, nextN, joinIdx, retval, launches >>

\* lines 279-288: the header is put before the spectrum
finalize_header(k) ==
    LET j == jobs[k]
        r == loop_item(j)
        desired == desired_output_path(j.out)
        header == details_to_prepend(get_parameters(userInput[j.n]))
    IN
    /\ j.pc = "header"
    /\ files' = [files EXCEPT ![desired] = <<header>> \o @]
    /\ jobs' = [jobs EXCEPT ![k] = next_turn(j)]
    /\ RunFollows(next_turn(j))
    /\ outcome' = [outcome EXCEPT ![r] = "finalized"]
    /\ UNCHANGED << envVars, userInput, instSpectra, dirs, cwd, argVars, nextN, joinIdx, retval, launches >>

\* -------------------------------- filehandler.py: get_params_from_file
\* s.split(sep), the separator one character of the model
RECURSIVE split(_, _)
split(s, sep) ==
    LET at == {j \in 1..Len(s) : s[j] = sep} IN
    IF at = {} THEN <<s>>
    ELSE LET a == CHOOSE j \in at : \A k \in at : j <= k
         IN  <<SubSeq(s, 1, a - 1)>> \o split(SubSeq(s, a + 1, Len(s)), sep)
DigitValue(c) == (CHOOSE j \in 1..10 : DigitChar[j] = c) - 1
RECURSIVE DigitsValue(_)
DigitsValue(d) ==
    IF d = <<>> THEN 0
    ELSE DigitsValue(SubSeq(d, 1, Len(d) - 1)) * 10 + DigitValue(d[Len(d)])
RECURSIVE StripZeros(_)
StripZeros(d) ==
    IF d # <<>> /\ d[Len(d)] = "0" THEN StripZeros(SubSeq(d, 1, Len(d) - 1)) ELSE d
\* float(s), of a decimal without sign and exponent: the number m * 10^e it
\* spells, m with no factor 10
float(s) ==
    LET parts == split(s, ".")
        ip == parts[1]
        fp == IF Len(parts) > 1 THEN StripZeros(parts[2]) ELSE <<>>
        ipz == StripZeros(ip)
    IN  IF fp # <<>> THEN Num(DigitsValue(ip \o fp), 0 - Len(fp), TRUE)
        ELSE Num(DigitsValue(ipz), IF ipz = <<>> THEN 0 ELSE Len(ip) - Len(ipz), TRUE)
\* x / c.R_jup.value and x / c.R_sun.value: the quotient, not worked out
Over(x, unit) == [metres |-> x, over |-> unit]

\* the header of a spectrum file from before the EOS was put in it
legacy_header(pl) ==
    <<"T", ":">> \o pl[2] \o <<", ", "g", ":">> \o pl[4] \o <<", ", "r_p", ":">> \o pl[5]
    \o <<", ", "r_s", ":">> \o pl[6] \o <<", ", "P", ":">> \o pl[7]
    \o <<", ", "r", ":">> \o pl[8]

\* lines 165-171: the first line, split at ', ' and each piece at ':'
header_params(txt_line) ==
    LET pieces == split(txt_line, ", ")
    IN  [k \in 1..Len(pieces) |-> split(pieces[k], ":")]
\* (no header taken for one of the older files)
is_legacy_never(params) == FALSE
\* line 175: an older file, without the EOS in its header
is_legacy(params) == Len(params) = 6
\* the name enumerate_eos is called with: the start of the file name up to
\* the first '-' (lines 182-183), or the first value of the header (line 214)
header_eos_string(path, txt_line) ==
    LET params == header_params(txt_line)
    IN  IF is_legacy(params) THEN split(os_path_basename(path), "-")[1]
        ELSE params[1][2]
get_params_from_file_raises(path, txt_line) ==
    enumerate_eos_raises(header_eos_string(path, txt_line))
\* get_params_from_file(path), units=False: [eos_code, T, g, Rp, Rs, P, r]
get_params_from_file(path, txt_line) ==
    LET params == header_params(txt_line)
        first == IF is_legacy(params) THEN 0 ELSE 1
        fl == [k \in 1..(Len(params) - first) |-> float(params[k + first][2])]
    IN  << enumerate_eos(header_eos_string(path, txt_line)), fl[1], fl[2],
           Over(fl[3], "R_jup"), Over(fl[4], "R_sun"), fl[5], fl[6] >>

\* ------------------------------------- exotransmit.io called on its own
\* the radii tried: zero, negative, with one decimal, ints and floats
Radii == {Num(m, e, f) : m \in (0 - 1)..MaxMant, e \in (0 - 1)..MaxExp, f \in BOOLEAN}
\* the planets and output names set_parameters is tried on
CodecPlanets ==
    {<<eos, T, g, Rp, Rs, Int_(10), Num(5, 0 - 1, TRUE)>> :
        eos \in {Int_(0), Int_(1), Num(15, 0 - 1, TRUE), Int_(Len(eos_list))},
        T \in {Int_(800), Num(15, 2, TRUE)},
        g \in {Int_(25), Num(98, 0 - 1, TRUE)},
        Rp \in {Num(5, 0 - 1, TRUE), Num(2, 8, FALSE), Num(1, 4, FALSE)},
        Rs \in {Int_(1), Num(2, 11, TRUE), Int_(100)}}
CodecNames == {<<"o1">>, <<"o1">> \o Dat, <<"o">>}

\* the package loaded, and nothing run
InitCodec ==
    /\ Init
    /\ DOMAIN files = {}

\* _check_planet_units(x) and _check_star_units(x)
check_planet_units_call ==
    /\ call.fn = "none"
    /\ \E x \in Radii :
         /\ call' = [call EXCEPT !.fn = "planet", !.x = x]
         /\ result' = IF PlanetUnitsOk(x)
                       THEN [result EXCEPT !.value = _check_planet_units(x)]
                       ELSE [result EXCEPT !.raised = TRUE]
    /\ UNCHANGED ioFrame
check_star_units_call ==
    /\ call.fn = "none"
    /\ \E x \in Radii :
         /\ call' = [call EXCEPT !.fn = "star", !.x = x]
         /\ result' = IF StarUnitsOk(x)
                       THEN [result EXCEPT !.value = _check_star_units(x)]
                       ELSE [result EXCEPT !.raised = TRUE]
    /\ UNCHANGED ioFrame

\* set_parameters(*p, name, 0): result.file is what userInput.in then holds
set_parameters_call ==
    /\ call.fn = "none"
    /\ \E p \in CodecPlanets, name \in CodecNames :
         /\ call' = [call EXCEPT !.fn = "set", !.p = p, !.name = name]
         /\ result' = IF set_parameters_raises(p)
                       THEN [Raised(set_parameters_error(p)) EXCEPT
                                !.file = written_on_error(userInput[0], p, name)]
                       ELSE [result EXCEPT !.file = set_parameters(userInput[0], p, name)]
    /\ UNCHANGED ioFrame
\* get_parameters(0) after it
get_parameters_call ==
    /\ call.fn = "set"
    /\ ~result.raised
    /\ call' = [call EXCEPT !.fn = "get"]
    /\ result' = [result EXCEPT !.params = get_parameters(result.file)]
    /\ UNCHANGED ioFrame

\* get_params_from_file of the artifact run makes of what get_parameters
\* returned, at the generated path or at the path of the output name; or of an
\* older file there, its header without the EOS
get_params_from_file_call ==
    /\ call.fn = "get"
    /\ \E legacy \in BOOLEAN, generated \in BOOLEAN :
         LET txt_line == IF legacy THEN legacy_header(result.params)
                         ELSE details_to_prepend(result.params)
             path == IF generated
                     THEN desired_output_path(format_output_path(generated_path(call.p)))
                     ELSE desired_output_path(format_output_path(call.name))
         IN
         /\ call' = [call EXCEPT !.fn = "get_params_from_file", !.path = path,
                          !.legacy = legacy]
         /\ result' = IF get_params_from_file_raises(path, txt_line)
                       THEN [Raised("ValueError") EXCEPT !.file = result.file,
                                                         !.params = result.params]
                       ELSE [result EXCEPT !.parsed = get_params_from_file(path, txt_line)]
    /\ UNCHANGED ioFrame

\* the EOS codes tried: ints, floats, and floats with one decimal; the names
\* tried: those of the list and one that is not in it
EosCodes ==
    {Num(m, 0, f) : m \in (0 - MaxCode)..MaxCode, f \in BOOLEAN}
    \cup {Num(m, 0 - 1, TRUE) : m \in (0 - MaxCode)..MaxCode}
EosNames == {<<eos_list[j]>> : j \in 1..Len(eos_list)} \cup {<<"eos_9">>}

\* io.get_eos(n), on its own or of the code enumerate_eos returned
get_eos_call ==
    \E from \in {"none", "enumerate_eos"} :
      /\ call.fn = from
      /\ ~result.raised
      /\ \E n \in IF from = "none" THEN EosCodes ELSE {result.value} :
           /\ call' = [call EXCEPT !.x = n,
                            !.fn = IF from = "none" THEN "get_eos" ELSE "enumerate_eos;get_eos"]
           /\ result' = IF ~is_integral(n) THEN Raised("ValueError")
                         ELSE IF get_eos_raises(n) THEN Raised("IndexError")
                         ELSE [NoResult EXCEPT !.name = get_eos(n)]
      /\ UNCHANGED ioFrame

\* io.enumerate_eos(eos_name), on its own or of the name get_eos returned
enumerate_eos_call ==
    \E from \in {"none", "get_eos"} :
      /\ call.fn = from
      /\ ~result.raised
      /\ \E eos_name \in IF from = "none" THEN EosNames ELSE {result.name} :
           /\ call' = [call EXCEPT !.name = eos_name,
                            !.fn = IF from = "none" THEN "enumerate_eos" ELSE "get_eos;enumerate_eos"]
           /\ result' = IF enumerate_eos_raises(eos_name) THEN Raised("ValueError")
                         ELSE [NoResult EXCEPT !.value = enumerate_eos(eos_name)]
      /\ UNCHANGED ioFrame

NextCodec ==
    \/ check_planet_units_call
    \/ check_star_units_call
    \/ set_parameters_call
    \/ get_parameters_call
    \/ get_eos_call
    \/ enumerate_eos_call
    \/ get_params_from_file_call

Next ==
    \/ run_begin
    \/ run_single
    \/ run_start_process
    \/ run_join
    \/ run_return
    \/ \E k \in 1..Len(jobs) : loop_turn(k)
    \/ \E k \in 1..Len(jobs) : binary_exit_move(k)
    \/ \E k \in 1..Len(jobs) : finalize_header(k)

\* a batch that finalizes into one new folder, the finalizing step by step
NextFinalize ==
    \/ run_begin_folder
    \/ run_start_process
    \/ run_join
    \/ run_return
    \/ \E k \in 1..Len(jobs) : loop_turn(k)
    \/ \E k \in 1..Len(jobs) : binary_exit(k)
    \/ \E k \in 1..Len(jobs) : finalize_exists(k)
    \/ \E k \in 1..Len(jobs) : finalize_makedirs(k)
    \/ \E k \in 1..Len(jobs) : finalize_move(k)
    \/ \E k \in 1..Len(jobs) : finalize_header(k)

Spec == Init /\ [][Next]_vars
SpecFinalize == Init /\ [][NextFinalize]_vars

\* the steps of a call of run that has been made: of the process that called
\* it, of the processes it started and of the binaries they launched
RunStep ==
    \/ run_single
    \/ run_start_process
    \/ run_join
    \/ run_return
    \/ \E k \in 1..Len(jobs) : loop_turn(k)
    \/ \E k \in 1..Len(jobs) : binary_exit_move(k)
    \/ \E k \in 1..Len(jobs) : finalize_header(k)
\* The operating system does not stop all the processes for good, and a
\* binary that was launched ends: while some process can take a step, a step
\* is taken. (A process that can take a step can do so until it takes it,
\* whatever the others do, so this is all the scheduler has to give.)
Fairness == WF_vars(RunStep)
SpecFair == Init /\ [][Next]_vars /\ Fairness
SpecPool == InitPool /\ [][Next]_vars
SpecOld == InitOld /\ [][Next]_vars
SpecCodec == InitCodec /\ [][NextCodec]_vars

\* ------------------------------------------- _config.py: _reset_exotransmit
\* what the user may type at a prompt
Answers == {<<>>, <<"y">>, <<"Y">>, <<"n">>, <<"N">>, <<"x">>, <<"y", "e", "s">>}
\* str.lower() of what is typed
lower(s) == [j \in DOMAIN s |-> IF s[j] = "Y" THEN "y" ELSE IF s[j] = "N" THEN "n" ELSE s[j]]
\* lines 280 and 287: the condition of the while loop of a prompt
asks_again(confirm) == ~(lower(confirm) = <<"y">>) /\ ~(lower(confirm) = <<"n">>)
\* p is the folder root or lies below it
IsUnder(p, root) ==
    \/ p = root
    \/ Len(p) > Len(root) + 1 /\ SubSeq(p, 1, Len(root)) = root /\ p[Len(root) + 1] = "/"
\* lines 306-309: the lines 7, 9 and 11 emptied, the line 13 set to False
ConfigReset == [original |-> <<>>, cluster |-> <<>>, spectra |-> <<>>,
                completed |-> <<"False">>]

\* the package set up, the cluster folder and the spectra folder there or
\* removed by hand since, spectra of an earlier session saved or not
InitReset ==
    /\ pool \in 1..cpu_count
    /\ \E there \in BOOLEAN :
         /\ userInput = [n \in (IF there THEN 0..(pool - 1) ELSE {}) |-> PristineInput]
         /\ instSpectra = [n \in (IF there THEN 0..(pool - 1) ELSE {}) |-> {}]
         /\ \E S \in {{}, OldLocations}, spectra \in BOOLEAN :
              /\ S # {} => spectra
              /\ files = [p \in S |-> OldArtifact]
              /\ dirs = {<<"/">>}
                        \cup (IF there THEN {EXOTRANSMIT_CLUSTER_PATH} ELSE {})
                        \cup (IF spectra THEN {EXOTRANSMIT_SPECTRA_PATH} ELSE {})
                        \cup UNION {Ancestors(p) : p \in S}
    /\ InitRun
    /\ call = NoCall
    /\ result = NoResult
    /\ cwd = CallerDir
    /\ config = ConfigAfterSetup
    /\ reset = NoReset
    /\ load = NoLoad

\* lines 268-279: _reset_exotransmit is called; it reads the configuration
\* file and sets confirm to ''
reset_begin ==
    /\ reset.pc = "idle"
    /\ reset' = [reset EXCEPT !.pc = "prompt1", !.confirm = <<>>]
    /\ UNCHANGED << fsVars, runVars, pool, call, result, cwd, config, load >>

\* lines 280-290: one turn of the while loop of the first prompt (second
\* FALSE) or of the second: an empty answer is 'n'; the loop ends on an
\* answer that is y or n in either case, and line 285 goes on to the second
\* prompt, with confirm set to '' again, after a first answer that is y in
\* either case
reset_input(second) ==
    /\ reset.pc = IF second THEN "prompt2" ELSE "prompt1"
    /\ asks_again(reset.confirm)
    /\ \E typed \in Answers :
         LET confirm == IF typed = <<>> THEN <<"n">> ELSE typed IN
         reset' = IF asks_again(confirm)
                  THEN [reset EXCEPT !.confirm = confirm]
                  ELSE IF ~second /\ lower(confirm) = <<"y">>
                  THEN [reset EXCEPT !.pc = "prompt2", !.confirm = <<>>,
                                     !.answers = Append(@, typed)]
                  ELSE [reset EXCEPT !.pc = "decide", !.confirm = confirm,
                                     !.answers = Append(@, typed)]
    /\ UNCHANGED << fsVars, runVars, pool, call, result, cwd, config, load >>

\* line 292: if confirm == 'n'
aborts(confirm) == confirm = <<"n">>

\* lines 292-311: the abort, or the two folders deleted where they exist and
\* the configuration file reset
reset_finish ==
    /\ reset.pc = "decide"
    /\ IF aborts(reset.confirm)
       THEN /\ reset' = [reset EXCEPT !.pc = "returned", !.ret = "False"]
            /\ UNCHANGED << fsVars, config >>
       ELSE /\ userInput' = IF config.cluster \in dirs
                            THEN [n \in {} |-> PristineInput] ELSE userInput
            /\ instSpectra' = IF config.cluster \in dirs
                              THEN [n \in {} |-> {}] ELSE instSpectra
            /\ files' = IF config.spectra \in dirs
                        THEN [p \in {q \in DOMAIN files : ~IsUnder(q, config.spectra)}
                                |-> files[p]]
                        ELSE files
            /\ dirs' = {d \in dirs :
                          /\ ~IsUnder(d, config.cluster)
                          /\ ~IsUnder(d, config.spectra)}
            /\ config' = ConfigReset
            /\ reset' = [reset EXCEPT !.pc = "returned", !.ret = "True"]
    /\ UNCHANGED << runVars, pool, call, result, cwd, load >>

NextReset ==
    \/ reset_begin
    \/ \E second \in BOOLEAN : reset_input(second)
    \/ reset_finish
SpecReset == InitReset /\ [][NextReset]_vars

\* ------------------------------- _config.py: _configure_exotransmit_cluster
\* the home folder of the user, and os.path.expanduser: a leading '~' becomes it
HomeDir == <<"/", "home">>
expanduser(p) == IF Len(p) > 0 /\ p[1] = "~" THEN HomeDir \o Tail(p) ELSE p
\* socket.gethostname()
hostname == <<"host">>
\* the compiled copies of Exo-Transmit on the disk
CompiledCopies == {<<"/", "Exo-Transmit">>, HomeDir \o <<"/", "Exo-Transmit">>}
\* what the user may type when asked for the path of the compiled copy
TypedPaths == {<<"/", "Exo-Transmit">>, <<"~", "/", "Exo-Transmit">>, <<"/", "nowhere">>}
\* the entries include/__config_original.txt may come with: empty or pre-filled
OriginalEntries == {<<>>, <<"/", "Exo-Transmit">>}
ClusterEntries == {<<>>, <<"/", "ExoTransmitCluster">>}
SpectraEntries == {<<>>, <<"/", "data">>, <<"~", "/", "data">>}

\* lines 58-81: the paths and the flag read from the configuration file
read_config_data(cfg) ==
    [original |-> expanduser(cfg.original), cluster |-> expanduser(cfg.cluster),
     spectra |-> expanduser(cfg.spectra), completed |-> cfg.completed = <<"True">>]

\* line 229: the path that is used when the entry of the configuration file
\* was filled in
spectra_from_entry(entry) == os_path_join(entry, <<"ExoTransmitSpectra">>)

\* before the first load: no user configuration file (the original one is
\* read, setup not completed), no cluster folder, no spectra folder
InitLoad ==
    /\ pool = 0
    /\ userInput = [n \in {} |-> PristineInput]
    /\ instSpectra = [n \in {} |-> {}]
    /\ files = [p \in {} |-> OldArtifact]
    /\ dirs = {<<"/">>, HomeDir} \cup CompiledCopies
    /\ InitRun
    /\ call = NoCall
    /\ result = NoResult
    /\ cwd = CallerDir
    /\ config \in [original : OriginalEntries, cluster : ClusterEntries,
                   spectra : SpectraEntries, completed : {<<"False">>}]
    /\ reset = NoReset
    /\ load = NoLoad

\* line 126 in a new process: the package is imported and the configuration
\* file is read; a completed setup goes to line 255
load_begin ==
    /\ load.pc \in {"none", "returned"}
    /\ load.n < MaxLoads
    /\ config.completed \in {<<"True">>, <<"False">>}
    /\ LET c == read_config_data(config) IN
       load' = [load EXCEPT !.pc = IF c.completed THEN "walk" ELSE "original",
                            !.n = @ + 1, !.original = c.original,
                            !.cluster = c.cluster, !.spectra = c.spectra,
                            !.setup = ~c.completed]
    /\ UNCHANGED << fsVars, runVars, pool, call, result, cwd, config, reset >>

\* lines 131-145: the user's configuration file is made from the original
\* one (the file that was read, there being no other); one turn of the loop
\* that asks for the compiled copy, or after it the line 7 written
setup_original ==
    /\ load.pc = "original"
    /\ IF Exists(load.original)
       THEN /\ config' = [config EXCEPT !.original = load.original]
            /\ load' = [load EXCEPT !.pc = "cluster"]
       ELSE /\ \E typed \in TypedPaths :
                 load' = [load EXCEPT !.original = expanduser(typed)]
            /\ UNCHANGED config
    /\ UNCHANGED << fsVars, runVars, pool, call, result, cwd, reset >>

\* lines 159-208: an empty entry becomes the default, which is written to
\* line 9; a cluster folder that is not there is made, with a copy per core
setup_cluster ==
    /\ load.pc = "cluster"
    /\ LET path == IF load.cluster = <<>>
                   THEN os_path_join(os_path_dirname(load.original),
                                     <<"ExoTransmitCluster", "/">> \o hostname)
                   ELSE load.cluster
       IN
       /\ load' = [load EXCEPT !.pc = "spectra", !.cluster = path]
       /\ config' = IF load.cluster = <<>> THEN [config EXCEPT !.cluster = path]
                    ELSE config
       /\ IF ~Exists(path)
          THEN /\ dirs' = dirs \cup {path} \cup Ancestors(path)
               /\ userInput' = [n \in 0..(cpu_count - 1) |-> PristineInput]
               /\ instSpectra' = [n \in 0..(cpu_count - 1) |-> {}]
          ELSE UNCHANGED << dirs, userInput, instSpectra >>
    /\ UNCHANGED << files, runVars, pool, call, result, cwd, reset >>

\* lines 214-240: an empty entry becomes the default, which is written to
\* line 11; a filled entry gets the folder name appended and nothing is
\* written; the folder is made where it is not there
setup_spectra ==
    /\ load.pc = "spectra"
    /\ LET path == IF load.spectra = <<>>
                   THEN os_path_join(os_path_dirname(load.original),
                                     <<"ExoTransmitSpectra">>)
                   ELSE spectra_from_entry(load.spectra)
       IN
       /\ load' = [load EXCEPT !.pc = "completed", !.spectra = path]
       /\ config' = IF load.spectra = <<>> THEN [config EXCEPT !.spectra = path]
                    ELSE config
       /\ dirs' = IF ~Exists(path) THEN dirs \cup {path} \cup Ancestors(path) ELSE dirs
    /\ UNCHANGED << userInput, instSpectra, files, runVars, pool, call, result, cwd, reset >>

\* lines 243-249: the line 13 set to True
setup_completed ==
    /\ load.pc = "completed"
    /\ config' = [config EXCEPT !.completed = <<"True">>]
    /\ load' = [load EXCEPT !.pc = "walk"]
    /\ UNCHANGED << fsVars, runVars, pool, call, result, cwd, reset >>

\* lines 255-260: the copies in the cluster folder are listed and the paths
\* are returned; they are the paths of the package for this session
load_return ==
    /\ load.pc = "walk"
    /\ Exists(load.cluster)
    /\ pool' = Cardinality(DOMAIN userInput)
    /\ load' = [load EXCEPT !.pc = "returned",
                            !.first = IF load.setup THEN load.spectra ELSE @]
    /\ UNCHANGED << fsVars, runVars, call, result, cwd, config, reset >>

NextLoad ==
    \/ load_begin
    \/ setup_original
    \/ setup_cluster
    \/ setup_spectra
    \/ setup_completed
    \/ load_return
SpecLoad == InitLoad /\ [][NextLoad]_vars

\* ================================================================== claims
Workers == {k \in 1..Len(jobs) : ~jobs[k].main}
Ended(j) == j.pc \in {"done", "dead"}
Processed(r) == outcome[r] \in {"skipped", "finalized"}
NumPlanets == Len(planet_parameters)
BatchCall == runPc # "idle" /\ ndim = 2
\* where the artifact of planet r is finalized (the counts of planets and of
\* output paths being equal)
FinalLocation(r) == desired_output_path(format_output_path(output_path[r]))
RECURSIVE ConcatChunks(_)
ConcatChunks(k) == IF k = 0 THEN <<>> ELSE ConcatChunks(k - 1) \o jobs[k].plist

\* C1: within one call of run every process is bound to an instance index of
\* its own: no two jobs share an instance, and the binary is never launched
\* in one instance for planets of two different jobs.
C1_DistinctInstances ==
    /\ \A a, b \in 1..Len(jobs) : a # b => jobs[a].n # jobs[b].n
    /\ \A e \in launches : \A k \in 1..Len(jobs) :
         jobs[k].n = e[2] => \E x \in 1..Len(jobs[k].plist) : jobs[k].plist[x] = e[1]
    /\ \A e1, e2 \in launches : e1[2] = e2[2] =>
         \E k \in 1..Len(jobs) :
            \E x, y \in 1..Len(jobs[k].plist) :
               jobs[k].plist[x] = e1[1] /\ jobs[k].plist[y] = e2[1]
\* two processes of one call run the binary at the same time
C1_Witness ==
    \E a, b \in Workers : a # b /\ jobs[a].pc = "running" /\ jobs[b].pc = "running"

\* C2: with len(requests) >= pool_size >= 1 the requests are split into
\* pool_size contiguous chunks whose sizes differ by at most one, the larger
\* first (10 over 4 gives 3,3,2,2), that together are the requests in order;
\* chunk k runs on instance k and gets the output paths of its own requests.
C2_StripeSplit ==
    /\ LET sp == array_split([x \in 1..10 |-> x], 4)
       IN  <<Len(sp[1]), Len(sp[2]), Len(sp[3]), Len(sp[4])>> = <<3, 3, 2, 2>>
    /\ (BatchCall /\ NumPlanets >= ncores /\ runPc # "raised") =>
        /\ Len(jobs) <= ncores
        /\ runPc \in {"joining", "return", "returned"} =>
              Len(jobs) = ncores /\ Len(ConcatChunks(Len(jobs))) = NumPlanets
        /\ ConcatChunks(Len(jobs)) = [x \in 1..Len(ConcatChunks(Len(jobs))) |-> x]
        /\ \A a, b \in 1..Len(jobs) : a < b =>
              /\ Len(jobs[a].plist) >= Len(jobs[b].plist)
              /\ Len(jobs[a].plist) - Len(jobs[b].plist) <= 1
        /\ \A k \in 1..Len(jobs) :
              /\ jobs[k].n = k - 1
              /\ Len(jobs[k].plist) >= 1
              /\ Len(output_path) = NumPlanets =>
                    jobs[k].olist = [x \in 1..Len(jobs[k].plist) |->
                                        output_path[jobs[k].plist[x]]]
\* three planets over two cores: chunks of 2 and 1, all processes started
C2_Witness ==
    /\ BatchCall /\ NumPlanets = 3 /\ ncores = 2 /\ runPc = "returned"
    /\ Len(jobs[1].plist) = 2 /\ Len(jobs[2].plist) = 1

\* C3: with 2 <= len(requests) < pool_size, request i runs alone on instance
\* i and the instances from len(requests) on are untouched: their input file
\* is never written and the binary is never launched in them.
C3_OnePerInstance ==
    (BatchCall /\ NumPlanets >= 2 /\ NumPlanets < ncores /\ ncores <= cpu_count) =>
        /\ \A k \in 1..Len(jobs) : jobs[k].plist = <<k>> /\ jobs[k].n = k - 1
        /\ \A e \in launches : e[2] = e[1] - 1
        /\ \A n \in Instances : n >= NumPlanets =>
              /\ userInput[n] = PristineInput
              /\ instSpectra[n] = {}
              /\ \A e \in launches : e[2] # n
        /\ \A n \in Instances : userInput[n] # PristineInput => <<n + 1, n>> \in launches
        /\ runPc = "returned" => \A r \in 1..NumPlanets : outcome[r] # "pending"
\* two planets on four cores, both run to the end
C3_Witness ==
    /\ BatchCall /\ NumPlanets = 2 /\ ncores = 4 /\ runPc = "returned"
    /\ launches = {<<1, 0>>, <<2, 1>>}
    /\ outcome[1] = "finalized" /\ outcome[2] = "finalized"

\* C4: with clobber false a request whose artifact location already holds a
\* file is skipped: the binary is not launched for it (and userInput.in is
\* not written), whatever the form of its output path.
C4_ExistingIsSkipped ==
    (runPc # "idle" /\ ~clobber /\ Len(output_path) = NumPlanets) =>
        \A r \in 1..NumPlanets :
            (FinalLocation(r) \in DOMAIN files /\ files[FinalLocation(r)] = OldArtifact)
                => \A e \in launches : e[1] # r

\* C5: in the batch path run does not return before every process it started
\* has ended, and nothing is returned before that.
C5_JoinBeforeReturn ==
    /\ (BatchCall /\ runPc \in {"return", "returned"}) =>
            \A k \in 1..Len(jobs) : Ended(jobs[k])
    /\ (\E k \in Workers : ~Ended(jobs[k])) => retval.none
    /\ runPc # "returned" => retval.none
\* run returned its paths after two processes, one of which had failed
C5_Witness ==
    /\ BatchCall /\ runPc = "returned" /\ ~retval.none /\ Len(jobs) >= 2
    /\ \E a, b \in Workers : jobs[a].pc = "dead" /\ jobs[b].pc = "done"

\* C6: within the chunk of one process the requests are taken one after
\* another in input order: a request is not started before the one before
\* it in the chunk has been skipped or finalized.
C6_ChunkInOrder ==
    \A k \in Workers : \A x \in 2..Len(jobs[k].plist) :
        (outcome[jobs[k].plist[x]] # "pending"
            \/ \E e \in launches : e[1] = jobs[k].plist[x])
        => Processed(jobs[k].plist[x - 1])
\* the second request of a chunk runs after the first was finalized
C6_Witness ==
    \E k \in Workers :
        /\ Len(jobs[k].plist) >= 2
        /\ outcome[jobs[k].plist[1]] = "finalized"
        /\ outcome[jobs[k].plist[2]] = "started"

\* C7: if a request of the call has a radius in a rejected band, run fails
\* before the binary is launched for any request of the call.
C7_RadiusFailsFast ==
    (runPc # "idle" /\ \E r \in 1..NumPlanets : set_parameters_raises(planet_parameters[r]))
        => launches = {}

\* C8: if the number of output paths given differs from the number of
\* requests, run raises before a process is started or the binary launched.
C8_CountsFailFast ==
    (runPc # "idle" /\ Len(output_path) # NumPlanets) =>
        jobs = <<>> /\ launches = {} /\ runPc \notin {"return", "returned"}

\* C9: a nonzero exit of the binary reaches the caller of run as an error:
\* run never returns normally after one.
C9_NonzeroExitRaises ==
    (\E k \in 1..Len(jobs) : jobs[k].err = "CalledProcessError")
        => runPc \notin {"return", "returned"}

\* C10: in the batch path a request that fails ends its own chunk (the
\* requests after it are not executed), and only its own: each process ends
\* by a failure of a request of its own or after all of its chunk.
C10_FailureIsLocal ==
    BatchCall =>
        /\ \A k \in Workers : \A x \in 1..Len(jobs[k].plist) :
              outcome[jobs[k].plist[x]] = "failed" =>
                 \A y \in (x + 1)..Len(jobs[k].plist) :
                    /\ outcome[jobs[k].plist[y]] = "pending"
                    /\ \A e \in launches : e[1] # jobs[k].plist[y]
        /\ \A k \in Workers :
              /\ jobs[k].pc = "dead" => outcome[jobs[k].plist[jobs[k].i]] = "failed"
              /\ jobs[k].pc = "done" =>
                    \A x \in 1..Len(jobs[k].plist) : Processed(jobs[k].plist[x])
        /\ runPc \in {"return", "returned"} =>
              \A k \in Workers :
                 \/ \A x \in 1..Len(jobs[k].plist) : Processed(jobs[k].plist[x])
                 \/ \E x \in 1..Len(jobs[k].plist) : outcome[jobs[k].plist[x]] = "failed"
\* run returned: one process lost its first request and left the second
\* alone, another finished its chunk
C10_Witness ==
    /\ BatchCall /\ runPc = "returned"
    /\ \E a, b \in Workers :
         /\ Len(jobs[a].plist) = 2
         /\ outcome[jobs[a].plist[1]] = "failed"
         /\ outcome[jobs[a].plist[2]] = "pending"
         /\ jobs[b].pc = "done"
         /\ \A x \in 1..Len(jobs[b].plist) : outcome[jobs[b].plist[x]] = "finalized"

\* C11: run on the single request p and run on the one-element batch [p] with
\* one core behave alike: instance 0 is the only one used, and in both forms a
\* request that failed (validation, the binary's exit, a missing artifact)
\* makes run raise: run does not go on to return after it.
C11_SingleAsBatch ==
    (runPc # "idle" /\ NumPlanets = 1 /\ (ndim = 1 \/ ncores = 1)) =>
        /\ \A e \in launches : e = <<1, 0>>
        /\ runPc \in {"return", "returned"} => outcome[1] # "failed"

\* the lines set_parameters sets (lines 5, 7, ..., 19 of the source, from 0)
TargetLines == {6, 8, 10, 12, 14, 16, 18, 20}

\* C12: a set_parameters on instance n changes only the eight target lines
\* of the input file of n: in every step that changes an input file, the
\* binary is being launched in that instance, the file keeps its number of
\* lines and every other line where it was, and the input files of all other
\* instances stay as they are.
C12_OnlyTargetLines ==
    [][\A n \in DOMAIN userInput : userInput'[n] # userInput[n] =>
          /\ \E e \in launches' \ launches : e[2] = n
          /\ Len(userInput'[n]) = Len(userInput[n])
          /\ \A k \in (1..Len(userInput[n])) \ TargetLines :
                userInput'[n][k] = userInput[n][k]
          /\ \A m \in DOMAIN userInput \ {n} : userInput'[m] = userInput[m]]_vars
\* an input file written for a second request while another instance's file
\* holds the parameters of its own request
C12_Witness ==
    \E n, m \in DOMAIN userInput :
        /\ n # m
        /\ Cardinality({e \in launches : e[2] = n}) = 2
        /\ userInput[m] # PristineInput
        /\ \A k \in (1..InputLines) \ TargetLines : userInput[n][k] = PristineInput[k]

\* what the input file of the instance holds for request r, where the binary
\* and the header read it, and the artifact of r: header line, then spectrum
WrittenFor(r) ==
    set_parameters(PristineInput, planet_parameters[r],
                   os_path_basename(format_output_path(output_path[r])))
ArtifactOf(r) ==
    <<details_to_prepend(get_parameters(WrittenFor(r)))>> \o BinaryOutput(WrittenFor(r))

\* C13: once a batch call has returned, the artifact of every request that
\* was run and finalized is one header line, made of the values written to
\* the input file for that request, followed by the binary's output for it.
C13_HeaderThenSpectrum ==
    (BatchCall /\ runPc = "returned" /\ Len(output_path) = NumPlanets) =>
        \A r \in 1..NumPlanets :
            outcome[r] = "finalized" =>
                /\ FinalLocation(r) \in DOMAIN files
                /\ files[FinalLocation(r)] = ArtifactOf(r)

\* C14: with return_paths, run returns one path per request, in request
\* order, and the path returned for a request whose artifact was saved is the
\* place under the spectra root where it was saved, whatever the form of the
\* output path (generated, without '.dat', with a leading '/').
C14_ReturnedWhereSaved ==
    (runPc = "returned" /\ ~retval.none /\ Len(output_path) = NumPlanets) =>
        /\ Len(retval.paths) = NumPlanets
        /\ \A r \in 1..NumPlanets :
              outcome[r] = "finalized" => retval.paths[r] = FinalLocation(r)

\* C15: if ncores exceeds the number of copies in the pool, run raises before
\* any process is started; so no process is ever started with an instance
\* index outside the pool.
C15_CoresWithinPool ==
    /\ (runPc # "idle" /\ ncores > pool) => Workers = {}
    /\ \A k \in Workers : jobs[k].n < pool

\* a number with a fractional part
Fractional(x) == x.e < 0 /\ x.m % 10 # 0

\* C16: if the EOS code of a request of the call is not integral, run raises
\* before the EOS list is read (no output path is made), before an input file
\* is written and before a process is started or the binary launched; an
\* integral code that is not an int is made one and the call goes on.
C16_EosIntegralOrRaise ==
    /\ (runPc # "idle" /\ \E r \in 1..NumPlanets : Fractional(planet_parameters[r][1])) =>
          /\ runPc = "raised"
          /\ output_path = <<>> /\ full_output_path = <<>>
          /\ jobs = <<>> /\ launches = {}
          /\ \A n \in DOMAIN userInput : userInput[n] = PristineInput
    /\ runPc \notin {"idle", "raised"} =>
          \A r \in 1..NumPlanets : ~planet_parameters[r][1].f
\* a batch whose second request has the code 1.5: TypeError
C16_Witness ==
    /\ BatchCall /\ NumPlanets >= 2 /\ runErr = "TypeError"
    /\ Fractional(planet_parameters[2][1])
    /\ ncores <= cpu_count

\* C17: with clobber true a request whose artifact location holds an artifact
\* of an earlier session is run, not skipped, and once run has returned the
\* file at that location is the artifact of the new run alone: one header
\* line, then the new output, nothing of the old artifact.
C17_ClobberReplaces ==
    (clobber /\ runPc = "returned" /\ Len(output_path) = NumPlanets) =>
        \A r \in 1..NumPlanets :
            FinalLocation(r) \in OldLocations =>
                /\ outcome[r] # "skipped"
                /\ outcome[r] = "finalized" => files[FinalLocation(r)] = ArtifactOf(r)

\* the output name with '.dat' appended if absent
WithDat(name) ==
    IF Len(name) >= 4 /\ SubSeq(name, Len(name) - 3, Len(name)) = Dat THEN name
    ELSE name \o Dat
NDigits(x) == Len(Digits(x.m)) + x.e
IsPowerOfTen(x) == x.m \in {1, 10}
\* x < 10^k and x > 10^k, read off the decimal digits
Below(x, k) == x.m <= 0 \/ NDigits(x) <= k
Above(x, k) == x.m > 0 /\ (NDigits(x) > k + 1 \/ (NDigits(x) = k + 1 /\ ~IsPowerOfTen(x)))

\* C19: _check_planet_units returns Rp * R_jup for Rp < 10, returns Rp as it
\* is for 1e6 < Rp < 1e9, and raises for every other Rp (10, 1e6 and 1e9
\* themselves, all of [10, 1e6], everything from 1e9 on).
C19_PlanetUnits ==
    call.fn = "planet" =>
        LET x == call.x IN
        IF Below(x, 1)
        THEN ~result.raised /\ result.value = Num(x.m * R_jup_m, x.e + R_jup_e, TRUE)
        ELSE IF Above(x, 6) /\ Below(x, 9)
        THEN ~result.raised /\ result.value = x
        ELSE result.raised
\* a radius of exactly 1e9 is rejected
C19_Witness ==
    call.fn = "planet" /\ call.x = Num(1, 9, FALSE) /\ result.raised

C21_GetEosInRange ==
    (call.fn = "get_eos" /\ is_integral(call.x)) =>
        LET n == IntValue(int(call.x)) IN
        IF 0 <= n /\ n < Len(eos_list)
        THEN ~result.raised /\ result.name = <<eos_list[n + 1]>>
        ELSE result.raised /\ result.name = <<>>

\* C22: enumerate_eos(get_eos(n)) is n for every valid code n, and
\* get_eos(enumerate_eos(name)) is name for every name of the registry;
\* enumerate_eos of a name that is not in the registry fails with a not-found
\* error.
ValidCode(x) == is_integral(x) /\ 0 <= IntValue(int(x)) /\ IntValue(int(x)) < Len(eos_list)
InRegistry(name) == \E j \in 1..Len(eos_list) : name = <<eos_list[j]>>
C22_EosRoundTrip ==
    /\ (call.fn = "get_eos;enumerate_eos" /\ ValidCode(call.x)) =>
            (~result.raised /\ IntValue(result.value) = IntValue(int(call.x)))
    /\ (call.fn = "enumerate_eos;get_eos" /\ InRegistry(call.name)) =>
            (~result.raised /\ result.name = call.name)
    /\ (call.fn = "enumerate_eos" /\ ~InRegistry(call.name)) =>
            (result.raised /\ result.err = "ValueError")
C22_Witness ==
    /\ call.fn = "get_eos;enumerate_eos"
    /\ ValidCode(call.x)
    /\ IntValue(int(call.x)) = Len(eos_list) - 1
    /\ ~result.raised

\* C23: in one call of run the external binary is invoked at most once for
\* every request, whatever its outcome, and a skipped request is never
\* revisited: a launch is of a request nothing was done for yet, and what
\* became of a request (skipped, failed, finalized) stays.
LaunchedOn(ls, r) == {n \in 0..(cpu_count - 1) : <<r, n>> \in ls}
C23_NoRetry ==
    /\ [](\A r \in 1..Len(outcome) : Cardinality(LaunchedOn(launches, r)) <= 1)
    /\ [][\A r \in 1..Len(outcome) :
            /\ (outcome'[r] = "started" /\ outcome[r] # "started") => outcome[r] = "pending"
            /\ LaunchedOn(launches', r) # LaunchedOn(launches, r) => outcome[r] = "pending"
            /\ outcome[r] \in {"skipped", "failed", "finalized"} => outcome'[r] = outcome[r]
            /\ outcome[r] = "started" => outcome'[r] \in {"started", "failed", "finalized"}]_vars
C23_Witness ==
    /\ runPc = "returned"
    /\ \E r \in 1..Len(outcome) : outcome[r] = "failed" /\ LaunchedOn(launches, r) # {}
    /\ \E r \in 1..Len(outcome) : outcome[r] = "skipped"
    /\ \E r \in 1..Len(outcome) : outcome[r] = "finalized"

\* C24: processes that finalize side by side to different output paths do
\* not disturb each other, also when the paths lie in one folder that is not
\* there yet: no process fails on the folder the other made, and every
\* finalized artifact is at its own path, its own header before its own
\* spectrum.
C24_ConcurrentFinalize ==
    BatchCall =>
        /\ \A k \in Workers : jobs[k].err # "OSError"
        /\ \A r \in 1..NumPlanets :
              outcome[r] = "finalized" =>
                  /\ FinalLocation(r) \in DOMAIN files
                  /\ files[FinalLocation(r)] = ArtifactOf(r)
C24_Witness ==
    /\ BatchCall
    /\ runPc = "returned"
    /\ \E k \in Workers : jobs[k].eexist
    /\ \A r \in 1..NumPlanets : outcome[r] = "finalized"
    /\ \A r1, r2 \in 1..NumPlanets : r1 # r2 => FinalLocation(r1) # FinalLocation(r2)

\* C25: the output path resolved for a planet is
\* '<eos_name>/<int(T)>/<eos_name>-<T>-<g>-<Rp>-<Rs>-<P>-<r>.dat', T with one
\* decimal and the others with two, whatever else the call is given and
\* whatever the files that are there; and when the paths have been resolved
\* no file and no folder has changed.
GivenPaths == UNION {{oa.paths : oa \in OutputArgs(cnt)} : cnt \in 1..MaxReq}
EosName(code) == <<eos_list[IntValue(code) + 1]>>
ResolvedForm(p) ==
    EosName(p[1]) \o <<"/">> \o IntDigits(p[2]) \o <<"/">>
    \o EosName(p[1]) \o <<"-">> \o format_1f(p[2]) \o <<"-">> \o format_2f(p[3])
    \o <<"-">> \o format_2f(p[4]) \o <<"-">> \o format_2f(p[5])
    \o <<"-">> \o format_2f(p[6]) \o <<"-">> \o format_2f(p[7]) \o Dat
RECURSIVE Canon(_)
Canon(x) ==
    IF x.m = 0 THEN Num(0, 0, TRUE)
    ELSE IF x.m % 10 = 0 THEN Canon(Num(x.m \div 10, x.e + 1, TRUE))
    ELSE Num(x.m, x.e, TRUE)
C26_HeaderRoundTrip ==
    (/\ call.fn = "get_params_from_file"
     /\ call.legacy => InRegistry(split(os_path_basename(call.path), "-")[1])) =>
        LET p == call.p IN
        /\ ~result.raised
        /\ result.parsed =
              << Int_(IntValue(int(p[1]))), Canon(p[2]), Canon(p[3]),
                 [metres |-> Canon(IF LtPow10(p[4], 1)
                                   THEN Num(p[4].m * R_jup_m, p[4].e + R_jup_e, TRUE)
                                   ELSE p[4]),
                  over |-> "R_jup"],
                 [metres |-> Canon(IF LtPow10(p[5], 2)
                                   THEN Num(p[5].m * R_sun_m, p[5].e + R_sun_e, TRUE)
                                   ELSE p[5]),
                  over |-> "R_sun"],
                 Canon(p[6]), Canon(p[7]) >>
\* an older header read back: EOS 1 from the file name, a radius of 0.5 R_jup
C26_Witness ==
    /\ call.fn = "get_params_from_file"
    /\ call.legacy
    /\ ~result.raised
    /\ result.parsed[1] = Int_(1)
    /\ call.p[4] = Num(5, 0 - 1, TRUE)
    /\ result.parsed[4] = [metres |-> Num(35746, 3, TRUE), over |-> "R_jup"]

C28_CwdRestored ==
    (ndim = 1 /\ runPc \in {"returned", "raised"}) => cwd = CallerDir

\* C27: with every process scheduled and every launched binary ending, a
\* batch call of run that has begun to start its processes returns, every
\* process it started having ended and been joined; and run has not returned
\* while a binary it launched has not ended.
C27_DispatchTerminates ==
    /\ (runPc = "starting") ~> (runPc = "returned" /\ \A k \in Workers : Ended(jobs[k]))
    /\ []((BatchCall /\ runPc \in {"return", "returned"}) =>
            \A k \in Workers : jobs[k].pc # "running")
\* the same for the calls whose planets and output paths are of equal number
\* (the calls the check of the counts is meant to let through)
C27_EqualCountsTerminate ==
    /\ (runPc = "starting" /\ Len(output_path) = NumPlanets) ~>
            (runPc = "returned" /\ \A k \in Workers : Ended(jobs[k]))
    /\ []((BatchCall /\ runPc \in {"return", "returned"}) =>
            \A k \in Workers : jobs[k].pc # "running")
\* a batch call has returned after a process of it died and another went
\* through a chunk of two planets
C27_Returned ==
    /\ BatchCall
    /\ runPc = "returned"
    /\ Len(jobs) >= 2
    /\ \E k \in Workers : jobs[k].pc = "dead"
    /\ \E k \in Workers : jobs[k].pc = "done" /\ Len(jobs[k].plist) >= 2

\* C30: _reset_exotransmit deletes the cluster folder and the spectra folder
\* and resets the configuration file only after an answer of y or Y at both
\* prompts; after any other answers (an empty answer, n or N at either
\* prompt) nothing of the folders or of the configuration file changes and it
\* returns False.
YesAtBoth(answers) == Len(answers) = 2 /\ lower(answers[1]) = <<"y">>
                                       /\ lower(answers[2]) = <<"y">>
C30_ResetOnlyOnYesYes ==
    [][IF reset.pc = "decide" /\ YesAtBoth(reset.answers)
       THEN /\ reset'.ret = "True"
            /\ config' = ConfigReset
            /\ EXOTRANSMIT_CLUSTER_PATH \notin dirs'
            /\ EXOTRANSMIT_SPECTRA_PATH \notin dirs'
            /\ DOMAIN files' = {} /\ DOMAIN userInput' = {}
       ELSE /\ UNCHANGED << userInput, instSpectra, files, dirs, config >>
            /\ reset'.ret # "True"
            /\ reset.pc = "decide" => reset'.ret = "False"]_vars
\* the same with an answer of N taken out: the code aborts on the answer n
\* (and on the empty answer) only
C30_ExceptUpperN ==
    [][(\A j \in 1..Len(reset.answers) : reset.answers[j] # <<"N">>) =>
       IF reset.pc = "decide" /\ YesAtBoth(reset.answers)
       THEN /\ reset'.ret = "True"
            /\ config' = ConfigReset
            /\ EXOTRANSMIT_CLUSTER_PATH \notin dirs'
            /\ EXOTRANSMIT_SPECTRA_PATH \notin dirs'
            /\ DOMAIN files' = {} /\ DOMAIN userInput' = {}
       ELSE /\ UNCHANGED << userInput, instSpectra, files, dirs, config >>
            /\ reset'.ret # "True"
            /\ reset.pc = "decide" => reset'.ret = "False"]_vars
\* the folders were deleted after the answer N at the first prompt
C30_DeletedAfterN ==
    /\ reset.pc = "returned"
    /\ reset.answers = << <<"N">> >>
    /\ reset.ret = "True"
    /\ DOMAIN files = {} /\ DOMAIN userInput = {}

\* C31: the spectra root a load of the package returns after the setup is
\* completed is the spectra root the load that made the setup returned,
\* whether the entry of the configuration file was empty or filled in.
C31_SpectraRootStable ==
    (load.pc = "returned" /\ load.first # <<"none">>) => load.spectra = load.first
\* the same for the configuration files that come with an empty entry for
\* the spectra path (the setup then writes the root it returns to line 11)
SpectraEntryWasEmpty == config.completed = <<"True">> /\ config.spectra = load.first
C31_StableWhenEmpty ==
    (load.pc = "returned" /\ load.first # <<"none">> /\ SpectraEntryWasEmpty)
        => load.spectra = load.first
\* a later load has returned the entry as it was filled in, the setup having
\* made and returned the folder below it
C31_LaterLoadElsewhere ==
    /\ load.pc = "returned"
    /\ load.n >= 2
    /\ ~load.setup
    /\ load.first = os_path_join(load.spectra, <<"ExoTransmitSpectra">>)
    /\ load.first \in dirs
\* a later load has returned the root of the setup (the entry was empty)
C31_LaterLoadSame ==
    /\ load.pc = "returned"
    /\ load.n >= 2
    /\ ~load.setup
    /\ load.spectra = load.first

====
